---- MODULE Spec2Model ----
(***************************************************************************)
(* Airdrop tracker ledger: the two Anchor programs                         *)
(*   programs/xenblocks-airdrop-tracker  (variant "A": xnm, xblk, xuni and *)
(*                                        native counters)                 *)
(*   programs/xnm-airdrop-tracker        (variant "B": xnm and xblk)       *)
(* modelled as one state machine.  The variable `variant` is fixed in Init *)
(* and selects which program a behaviour is a run of.                      *)
(*                                                                         *)
(* An instruction is one atomic step.  Anchor processes it in this order:  *)
(*   1. every account that is not `init` is loaded, in declaration order   *)
(*      (an account that holds no data of the expected type is a           *)
(*      not-found failure);                                                *)
(*   2. every `init` account is created (an address already in use is a    *)
(*      duplicate failure);                                                *)
(*   3. the remaining constraints are evaluated, in declaration order      *)
(*      (`constraint = ... @ ErrorCode::Unauthorized`);                    *)
(*   4. the handler body runs on the in-memory copies of the accounts;     *)
(*   5. only when the handler returns Ok are the copies written back.      *)
(* A failure in any phase aborts the instruction and nothing is committed. *)
(***************************************************************************)
EXTENDS Integers, Sequences, FiniteSets, TLC

VARIABLES variant, state, runs, records, now, result, applied, created

vars == <<variant, state, runs, records, now, result, applied, created>>

----------------------------------------------------------------------------
(* Program constants *)

\* The largest value of a u64 counter (`pub xnm_airdropped: u64`).  TLC
\* computes with 32-bit integers, so the 64-bit range is scaled to 30 bits:
\* every sum of two counters is still computed exactly, and checked_add
\* compares it with this maximum as the code compares with u64::MAX.
U64Max == 1073741823

----------------------------------------------------------------------------
(* Bounds of the model *)

\* create_run is explored while run_counter < MaxRuns
MaxRuns == 2

\* records are created while fewer than MaxRecords exist
MaxRecords == 2

----------------------------------------------------------------------------
(* Input values *)

Variants == {"A", "B"}

\* the keys that sign instructions
Signers == {"A", "B"}

\* the recipient wallets
Wallets == {"W1", "W2"}

\* A 42-byte eth address is split where the seeds split it: `head` stands
\* for bytes 0..19 and `tail` for bytes 20..41.
Eth(h, t) == [head |-> h, tail |-> t]

EthAddresses == { Eth("H1", "T1"), Eth("H1", "T2"), Eth("H2", "T1") }

\* the (sol_wallet, eth_address) pairs records are created for: two
\* addresses with one head, a third with another head, a second wallet
Targets ==
    { <<"W1", Eth("H1", "T1")>>, <<"W1", Eth("H1", "T2")>>,
      <<"W1", Eth("H2", "T1")>>, <<"W2", Eth("H1", "T1")>> }

\* u64 amounts: Half + Half fits, Half + Half + Half overflows, and so
\* does U64Max added to anything but 0
Half == U64Max \div 2

Amounts == {0, Half, U64Max}

\* the token_type selectors of variant B (u8); 2 is an invalid one
TokenTypes == {0, 1, 2}

\* the unix timestamps the clock shows
Times == {0, 1}

\* (total_recipients, total_amount) pairs passed to update_run_totals
Totals == { <<0, 0>>, <<2, U64Max>> }

\* arguments of update_record / initialize_and_update, variant A
ArgA(xnm, xblk, xuni, native) ==
    [xnm_amount |-> xnm, xblk_amount |-> xblk,
     xuni_amount |-> xuni, native_amount |-> native]

\* arguments of update_record / initialize_and_update, variant B
ArgB(token_type, amount) == [token_type |-> token_type, amount |-> amount]

----------------------------------------------------------------------------
(* Addresses *)

\* seeds that take all 42 bytes of the address
RecordKey_whole(wallet, eth_address) == <<wallet, eth_address>>

\* seeds = [b"airdrop_record", sol_wallet, &eth_address[..20]]
RecordKey(wallet, eth_address) == <<wallet, eth_address.head>>

\* seeds taken from the counter before it is advanced
RunSeed_current(st) == st.run_counter

\* seeds = [b"run", (state.run_counter + 1).to_le_bytes()]
RunSeed(st) == st.run_counter + 1

----------------------------------------------------------------------------
(* Scopes: the inputs a specification draws its calls from.  Every scope   *)
(* has every instruction called by both signers; it is wide in the inputs  *)
(* of one group of instructions and narrow in the others.                  *)

\* wide in the run instructions; one record address, one amount
RunScope ==
    [signers |-> Signers,
     dry     |-> BOOLEAN,
     maxRuns |-> MaxRuns,
     runIds  |-> 1..MaxRuns,
     totals  |-> Totals,
     targets |-> {<<"W1", Eth("H1", "T1")>>},
     argsA   |-> {ArgA(U64Max, U64Max, U64Max, U64Max)},
     argsB   |-> {ArgB(0, U64Max)}]

\* wide in the amounts; one record address, one run
AmountScope ==
    [signers |-> Signers,
     dry     |-> {FALSE},
     maxRuns |-> 1,
     runIds  |-> {1},
     totals  |-> {<<2, U64Max>>},
     targets |-> {<<"W1", Eth("H1", "T1")>>},
     argsA   |-> {ArgA(0, 0, 0, 0), ArgA(0, 0, 0, Half),
                  ArgA(0, 0, Half, Half), ArgA(0, Half, Half, Half),
                  ArgA(Half, Half, Half, Half), ArgA(0, 0, 0, U64Max)},
     argsB   |-> [token_type : TokenTypes, amount : Amounts]]

\* wide in the record addresses; one amount, one run
KeyScope ==
    [signers |-> Signers,
     dry     |-> {FALSE},
     maxRuns |-> 1,
     runIds  |-> {1},
     totals  |-> {<<2, U64Max>>},
     targets |-> Targets,
     argsA   |-> {ArgA(U64Max, U64Max, U64Max, U64Max)},
     argsB   |-> {ArgB(0, U64Max)}]

\* two record addresses of one wallet that differ in the leading bytes;
\* one amount, one run
PairScope ==
    [signers |-> Signers,
     dry     |-> {FALSE},
     maxRuns |-> 1,
     runIds  |-> {1},
     totals  |-> {<<2, U64Max>>},
     targets |-> {<<"W1", Eth("H1", "T1")>>, <<"W1", Eth("H2", "T1")>>},
     argsA   |-> {ArgA(U64Max, U64Max, U64Max, U64Max)},
     argsB   |-> {ArgB(0, U64Max)}]

\* the arguments of either variant, and those a variant's program decodes
ArgsOf(S) == S.argsA \cup S.argsB

IsArgs(v, a) == (v = "A") <=> ("xnm_amount" \in DOMAIN a)

\* the record addresses the calls of a scope may name
KeysOf(S) == { RecordKey(t[1], t[2]) : t \in S.targets }

----------------------------------------------------------------------------
(* Handlers: the bodies of the #[program] functions.  Each works on the    *)
(* in-memory copy of its accounts and returns the copy with the error it   *)
(* ended with; a copy returned with an error holds whatever the body had   *)
(* assigned before it returned.                                            *)

\* an addition that wraps where checked_add gives None
wrapping_add(a, b) ==
    [some |-> TRUE, value |-> (a + b) % (U64Max + 1)]

\* u64::checked_add: None when the sum does not fit
checked_add(a, b) ==
    IF a + b > U64Max THEN [some |-> FALSE, value |-> 0]
                      ELSE [some |-> TRUE, value |-> a + b]

initialize_state(authority) ==
    [authority |-> authority, run_counter |-> 0]

\* a create_run that takes run_id before the counter is advanced
create_run_stale(st, dry_run, clock) ==
    [state |-> [st EXCEPT !.run_counter = @ + 1],
     run   |-> [run_id |-> st.run_counter,
                run_date |-> clock,
                total_recipients |-> 0,
                total_amount |-> 0,
                dry_run |-> dry_run]]

\* `state.run_counter += 1; run.run_id = state.run_counter; ...`
create_run(st, dry_run, clock) ==
    LET st1 == [st EXCEPT !.run_counter = @ + 1]
    IN  [state |-> st1,
         run   |-> [run_id |-> st1.run_counter,
                    run_date |-> clock,
                    total_recipients |-> 0,
                    total_amount |-> 0,
                    dry_run |-> dry_run]]

\* an update_run_totals that also marks the run as a live one
update_run_totals_live(run, total_recipients, total_amount) ==
    [run EXCEPT !.total_recipients = total_recipients,
                !.total_amount = total_amount,
                !.dry_run = FALSE]

\* an update_run_totals that writes only totals that are still zero
update_run_totals_once(run, total_recipients, total_amount) ==
    IF run.total_recipients = 0 /\ run.total_amount = 0
    THEN [run EXCEPT !.total_recipients = total_recipients,
                     !.total_amount = total_amount]
    ELSE run

update_run_totals(run, total_recipients, total_amount) ==
    [run EXCEPT !.total_recipients = total_recipients,
                !.total_amount = total_amount]

\* variant A, lib.rs:57-77
initialize_record_A(sol_wallet, eth_address, clock) ==
    [sol_wallet |-> sol_wallet,
     eth_address |-> eth_address,
     xnm_airdropped |-> 0,
     xblk_airdropped |-> 0,
     xuni_airdropped |-> 0,
     native_airdropped |-> 0,
     last_updated |-> clock]

\* variant B, lib.rs:57-75
initialize_record_B(sol_wallet, eth_address, clock) ==
    [sol_wallet |-> sol_wallet,
     eth_address |-> eth_address,
     xnm_airdropped |-> 0,
     xblk_airdropped |-> 0,
     last_updated |-> clock]

\* variant A: four checked additions in sequence, each `?` returning early
update_record_A(record, a, clock) ==
    LET s1 == checked_add(record.xnm_airdropped, a.xnm_amount)
        r1 == [record EXCEPT !.xnm_airdropped = s1.value]
        s2 == checked_add(r1.xblk_airdropped, a.xblk_amount)
        r2 == [r1 EXCEPT !.xblk_airdropped = s2.value]
        s3 == checked_add(r2.xuni_airdropped, a.xuni_amount)
        r3 == [r2 EXCEPT !.xuni_airdropped = s3.value]
        s4 == checked_add(r3.native_airdropped, a.native_amount)
        r4 == [r3 EXCEPT !.native_airdropped = s4.value]
    IN  IF ~s1.some THEN [err |-> "Overflow", record |-> record]
        ELSE IF ~s2.some THEN [err |-> "Overflow", record |-> r1]
        ELSE IF ~s3.some THEN [err |-> "Overflow", record |-> r2]
        ELSE IF ~s4.some THEN [err |-> "Overflow", record |-> r3]
        ELSE [err |-> "Ok", record |-> [r4 EXCEPT !.last_updated = clock]]

\* an update_record whose last arm takes every other selector for XBLK
update_record_B_default(record, a, clock) ==
    LET s0 == checked_add(record.xnm_airdropped, a.amount)
        s1 == checked_add(record.xblk_airdropped, a.amount)
    IN  IF a.token_type = 0 THEN
            IF ~s0.some THEN [err |-> "Overflow", record |-> record]
            ELSE [err |-> "Ok",
                  record |-> [record EXCEPT !.xnm_airdropped = s0.value,
                                            !.last_updated = clock]]
        ELSE
            IF ~s1.some THEN [err |-> "Overflow", record |-> record]
            ELSE [err |-> "Ok",
                  record |-> [record EXCEPT !.xblk_airdropped = s1.value,
                                            !.last_updated = clock]]

\* an update_record that assigns the amount where the code adds it
update_record_B_assign(record, a, clock) ==
    IF a.token_type = 0 THEN
        [err |-> "Ok",
         record |-> [record EXCEPT !.xnm_airdropped = a.amount,
                                   !.last_updated = clock]]
    ELSE IF a.token_type = 1 THEN
        [err |-> "Ok",
         record |-> [record EXCEPT !.xblk_airdropped = a.amount,
                                   !.last_updated = clock]]
    ELSE [err |-> "InvalidTokenType", record |-> record]

\* variant B: `match token_type`
update_record_B(record, a, clock) ==
    LET s0 == checked_add(record.xnm_airdropped, a.amount)
        s1 == checked_add(record.xblk_airdropped, a.amount)
    IN  IF a.token_type = 0 THEN
            IF ~s0.some THEN [err |-> "Overflow", record |-> record]
            ELSE [err |-> "Ok",
                  record |-> [record EXCEPT !.xnm_airdropped = s0.value,
                                            !.last_updated = clock]]
        ELSE IF a.token_type = 1 THEN
            IF ~s1.some THEN [err |-> "Overflow", record |-> record]
            ELSE [err |-> "Ok",
                  record |-> [record EXCEPT !.xblk_airdropped = s1.value,
                                            !.last_updated = clock]]
        ELSE [err |-> "InvalidTokenType", record |-> record]

\* variant A: the four amounts are stored as they are
initialize_and_update_A(sol_wallet, eth_address, a, clock) ==
    [err |-> "Ok",
     record |-> [sol_wallet |-> sol_wallet,
                 eth_address |-> eth_address,
                 xnm_airdropped |-> a.xnm_amount,
                 xblk_airdropped |-> a.xblk_amount,
                 xuni_airdropped |-> a.xuni_amount,
                 native_airdropped |-> a.native_amount,
                 last_updated |-> clock]]

\* an initialize_and_update whose two valid arms both write xnm_airdropped
initialize_and_update_B_xnm(sol_wallet, eth_address, a, clock) ==
    LET r0 == [sol_wallet |-> sol_wallet,
               eth_address |-> eth_address,
               xnm_airdropped |-> 0,
               xblk_airdropped |-> 0,
               last_updated |-> 0]
    IN  IF a.token_type \in {0, 1} THEN
            [err |-> "Ok",
             record |-> [r0 EXCEPT !.xnm_airdropped = a.amount,
                                   !.last_updated = clock]]
        ELSE [err |-> "InvalidTokenType", record |-> r0]

\* variant B: the record is zeroed, then `match token_type`; the invalid
\* arm returns before last_updated is assigned (a new account reads 0)
initialize_and_update_B(sol_wallet, eth_address, a, clock) ==
    LET r0 == [sol_wallet |-> sol_wallet,
               eth_address |-> eth_address,
               xnm_airdropped |-> 0,
               xblk_airdropped |-> 0,
               last_updated |-> 0]
    IN  IF a.token_type = 0 THEN
            [err |-> "Ok",
             record |-> [r0 EXCEPT !.xnm_airdropped = a.amount,
                                   !.last_updated = clock]]
        ELSE IF a.token_type = 1 THEN
            [err |-> "Ok",
             record |-> [r0 EXCEPT !.xblk_airdropped = a.amount,
                                   !.last_updated = clock]]
        ELSE [err |-> "InvalidTokenType", record |-> r0]

initialize_record(v, sol_wallet, eth_address, clock) ==
    IF v = "A" THEN initialize_record_A(sol_wallet, eth_address, clock)
               ELSE initialize_record_B(sol_wallet, eth_address, clock)

update_record(v, record, a, clock) ==
    IF v = "A" THEN update_record_A(record, a, clock)
               ELSE update_record_B(record, a, clock)

initialize_and_update(v, sol_wallet, eth_address, a, clock) ==
    IF v = "A" THEN initialize_and_update_A(sol_wallet, eth_address, a, clock)
               ELSE initialize_and_update_B(sol_wallet, eth_address, a, clock)

----------------------------------------------------------------------------
(* Account validation: the #[derive(Accounts)] structs.  A ledger L is the *)
(* record [state, runs, records] of the accounts the program owns: `state` *)
(* is a function on a subset of {"state"} (the one address of seeds        *)
(* [b"state"]), `runs` a function on run addresses and `records` one on    *)
(* record addresses.  Each operator yields "Ok" or the failure the         *)
(* validation ends with.                                                   *)

Ledger(st, rs, recs) == [state |-> st, runs |-> rs, records |-> recs]

HasState(L) == "state" \in DOMAIN L.state

GlobalState(L) == L.state["state"]

\* an InitializeState whose `state` is init_if_needed
InitializeState_IfNeeded(L) == "Ok"

\* `state` is init: the address must not be in use
InitializeState(L) ==
    IF HasState(L) THEN "AlreadyInitialized" ELSE "Ok"

\* a CreateRun / UpdateRunTotals whose `state` carries no constraint
CreateRun_NoConstraint(L, authority) ==
    IF ~HasState(L) THEN "NotFound"
    ELSE IF RunSeed(GlobalState(L)) \in DOMAIN L.runs THEN "DuplicateKey"
    ELSE "Ok"

\* `state` is loaded, `airdrop_run` is created at RunSeed, then
\* constraint = state.authority == authority.key() @ Unauthorized
CreateRun(L, authority) ==
    IF ~HasState(L) THEN "NotFound"
    ELSE IF RunSeed(GlobalState(L)) \in DOMAIN L.runs THEN "DuplicateKey"
    ELSE IF GlobalState(L).authority # authority THEN "Unauthorized"
    ELSE "Ok"

\* an UpdateRunTotals that evaluates the constraint on `state` before
\* `airdrop_run` is loaded
UpdateRunTotals_AuthFirst(L, authority, run) ==
    IF ~HasState(L) THEN "NotFound"
    ELSE IF GlobalState(L).authority # authority THEN "Unauthorized"
    ELSE IF run \notin DOMAIN L.runs THEN "NotFound"
    ELSE IF L.runs[run].run_id # run THEN "ConstraintSeeds"
    ELSE "Ok"

\* `state` and `airdrop_run` are loaded, then the constraint on `state`,
\* then seeds = [b"run", airdrop_run.run_id] on `airdrop_run`
UpdateRunTotals(L, authority, run) ==
    IF ~HasState(L) THEN "NotFound"
    ELSE IF run \notin DOMAIN L.runs THEN "NotFound"
    ELSE IF GlobalState(L).authority # authority THEN "Unauthorized"
    ELSE IF L.runs[run].run_id # run THEN "ConstraintSeeds"
    ELSE "Ok"

\* an InitializeRecord that allows one record per wallet
InitializeRecord_PerWallet(L, authority, key) ==
    IF \E k \in DOMAIN L.records : k[1] = key[1] THEN "DuplicateKey" ELSE "Ok"

\* an InitializeRecord whose `airdrop_record` is init_if_needed
InitializeRecord_IfNeeded(L, authority, key) == "Ok"

\* `airdrop_record` is init at RecordKey(sol_wallet, eth_address); the
\* struct names no `state` account and no constraint on `authority`
InitializeRecord(L, authority, key) ==
    IF key \in DOMAIN L.records THEN "DuplicateKey" ELSE "Ok"

\* `airdrop_record` is loaded and its seeds recomputed from its own fields;
\* the struct names no `state` account and no constraint on `authority`
UpdateRecord(L, authority, key) ==
    IF key \notin DOMAIN L.records THEN "NotFound"
    ELSE IF RecordKey(L.records[key].sol_wallet,
                      L.records[key].eth_address) # key THEN "ConstraintSeeds"
    ELSE "Ok"

\* as UpdateRecord, with close = authority
CloseRecord(L, authority, key) ==
    IF key \notin DOMAIN L.records THEN "NotFound"
    ELSE IF RecordKey(L.records[key].sol_wallet,
                      L.records[key].eth_address) # key THEN "ConstraintSeeds"
    ELSE "Ok"

----------------------------------------------------------------------------
(* Instructions: validation, handler and write-back as one step.  Each     *)
(* yields the ledger after the instruction together with its outcome.      *)

Outcome(e, L) ==
    [err |-> e, state |-> L.state, runs |-> L.runs, records |-> L.records]

\* the account copies are written back only when the handler returned Ok
Commit(e, new, old) == IF e = "Ok" THEN new ELSE old

\* a close that leaves the account in place
Without_keep(f, k) == f

Without(f, k) == [x \in DOMAIN f \ {k} |-> f[x]]

\* an initialize_state that writes over a GlobalState that exists
ix_initialize_state_over(L, authority) ==
    Outcome("Ok", [L EXCEPT !.state =
                      ("state" :> initialize_state(authority))])

ix_initialize_state(L, authority) ==
    LET e == InitializeState(L)
    IN  IF e # "Ok" THEN Outcome(e, L)
        ELSE Outcome("Ok", [L EXCEPT !.state =
                                ("state" :> initialize_state(authority))])

\* a create_run whose `state` is written back whatever the validation
\* ended with
ix_create_run_eager(L, authority, dry_run, clock) ==
    LET e == CreateRun(L, authority)
        h == create_run(GlobalState(L), dry_run, clock)
    IN  IF ~HasState(L) THEN Outcome(e, L)
        ELSE IF e # "Ok"
        THEN Outcome(e, [L EXCEPT !.state = ("state" :> h.state)])
        ELSE Outcome("Ok",
                 [L EXCEPT !.state = ("state" :> h.state),
                           !.runs = (RunSeed(GlobalState(L)) :> h.run) @@ @])

ix_create_run(L, authority, dry_run, clock) ==
    LET e == CreateRun(L, authority)
        h == create_run(GlobalState(L), dry_run, clock)
    IN  IF e # "Ok" THEN Outcome(e, L)
        ELSE Outcome("Ok",
                 [L EXCEPT !.state = ("state" :> h.state),
                           !.runs = (RunSeed(GlobalState(L)) :> h.run) @@ @])

ix_update_run_totals(L, authority, run, total_recipients, total_amount) ==
    LET e == UpdateRunTotals(L, authority, run)
    IN  IF e # "Ok" THEN Outcome(e, L)
        ELSE Outcome("Ok",
                 [L EXCEPT !.runs[run] =
                     update_run_totals(@, total_recipients, total_amount)])

ix_initialize_record(v, L, authority, sol_wallet, eth_address, clock) ==
    LET key == RecordKey(sol_wallet, eth_address)
        e == InitializeRecord(L, authority, key)
    IN  IF e # "Ok" THEN Outcome(e, L)
        ELSE Outcome("Ok",
                 [L EXCEPT !.records =
                     (key :> initialize_record(v, sol_wallet, eth_address,
                                               clock)) @@ @])

\* an update_record whose account copy is written back whatever the
\* handler returned
ix_update_record_partial(v, L, authority, key, a, clock) ==
    LET e == UpdateRecord(L, authority, key)
        h == update_record(v, L.records[key], a, clock)
    IN  IF e # "Ok" THEN Outcome(e, L)
        ELSE Outcome(h.err, [L EXCEPT !.records[key] = h.record])

ix_update_record(v, L, authority, key, a, clock) ==
    LET e == UpdateRecord(L, authority, key)
        h == update_record(v, L.records[key], a, clock)
    IN  IF e # "Ok" THEN Outcome(e, L)
        ELSE Outcome(h.err,
                 [L EXCEPT !.records =
                     Commit(h.err, [L.records EXCEPT ![key] = h.record],
                            L.records)])

\* an initialize_and_update whose `airdrop_record` is init_if_needed
ix_initialize_and_update_if_needed(v, L, authority, sol_wallet, eth_address, a, clock) ==
    LET key == RecordKey(sol_wallet, eth_address)
        h == initialize_and_update(v, sol_wallet, eth_address, a, clock)
    IN  Outcome(h.err,
            [L EXCEPT !.records =
                Commit(h.err, (key :> h.record) @@ L.records, L.records)])

ix_initialize_and_update(v, L, authority, sol_wallet, eth_address, a, clock) ==
    LET key == RecordKey(sol_wallet, eth_address)
        e == InitializeRecord(L, authority, key)
        h == initialize_and_update(v, sol_wallet, eth_address, a, clock)
    IN  IF e # "Ok" THEN Outcome(e, L)
        ELSE Outcome(h.err,
                 [L EXCEPT !.records =
                     Commit(h.err, (key :> h.record) @@ L.records,
                            L.records)])

ix_close_record(L, authority, key) ==
    LET e == CloseRecord(L, authority, key)
    IN  IF e # "Ok" THEN Outcome(e, L)
        ELSE Outcome("Ok", [L EXCEPT !.records = Without(@, key)])

----------------------------------------------------------------------------
(* The state machine *)

\* the ledger of the current state, and of the next one
Cur == Ledger(state, runs, records)

\* amounts as one tuple per record, in the order the fields are declared
Counters(v, r) ==
    IF v = "A"
    THEN <<r.xnm_airdropped, r.xblk_airdropped,
           r.xuni_airdropped, r.native_airdropped>>
    ELSE <<r.xnm_airdropped, r.xblk_airdropped>>

Zero(v) == IF v = "A" THEN <<0, 0, 0, 0>> ELSE <<0, 0>>

\* what a call asks to add to each counter: variant B's selector k names
\* counter k alone
Deltas(v, a) ==
    IF v = "A"
    THEN <<a.xnm_amount, a.xblk_amount, a.xuni_amount, a.native_amount>>
    ELSE <<IF a.token_type = 0 THEN a.amount ELSE 0,
           IF a.token_type = 1 THEN a.amount ELSE 0>>

Plus(x, y) == [i \in DOMAIN x |-> x[i] + y[i]]

NoKey == <<>>

NoArgs == <<>>

NoCall ==
    [op |-> "none", caller |-> "none", key |-> NoKey, run |-> 0,
     args |-> NoArgs, err |-> "Ok"]

Call(op, caller, key, run, args, err) ==
    [op |-> op, caller |-> caller, key |-> key, run |-> run,
     args |-> args, err |-> err]

Init ==
    /\ variant \in Variants
    /\ state = <<>>
    /\ runs = <<>>
    /\ records = <<>>
    /\ now = 0
    /\ result = NoCall
    /\ applied = <<>>
    /\ created = <<>>

\* Clock::get()?.unix_timestamp advances between instructions
Tick ==
    /\ now + 1 \in Times
    /\ now' = now + 1
    /\ result' = NoCall
    /\ UNCHANGED <<variant, state, runs, records, applied, created>>

InitializeStateCall(caller) ==
    LET out == ix_initialize_state(Cur, caller)
    IN  /\ state' = out.state
        /\ result' = Call("initialize_state", caller, NoKey, 0, NoArgs, out.err)
        /\ UNCHANGED <<variant, runs, records, now, applied, created>>

CreateRunCall(caller, dry_run, maxRuns) ==
    LET out == ix_create_run(Cur, caller, dry_run, now)
    IN  /\ HasState(Cur) => GlobalState(Cur).run_counter < maxRuns
        /\ state' = out.state
        /\ runs' = out.runs
        /\ result' = Call("create_run", caller, NoKey, 0,
                          [dry_run |-> dry_run], out.err)
        /\ created' = IF out.err = "Ok"
                      THEN Append(created,
                                  out.runs[RunSeed(GlobalState(Cur))].run_id)
                      ELSE created
        /\ UNCHANGED <<variant, records, now, applied>>

UpdateRunTotalsCall(caller, run, totals) ==
    LET out == ix_update_run_totals(Cur, caller, run, totals[1], totals[2])
    IN  /\ runs' = out.runs
        /\ result' = Call("update_run_totals", caller, NoKey, run,
                          [total_recipients |-> totals[1],
                           total_amount |-> totals[2]], out.err)
        /\ UNCHANGED <<variant, state, records, now, applied, created>>

\* a record is created only while fewer than MaxRecords exist
Room(key) ==
    key \in DOMAIN records \/ Cardinality(DOMAIN records) < MaxRecords

InitializeRecordCall(caller, sol_wallet, eth_address) ==
    LET key == RecordKey(sol_wallet, eth_address)
        out == ix_initialize_record(variant, Cur, caller, sol_wallet,
                                    eth_address, now)
    IN  /\ Room(key)
        /\ records' = out.records
        /\ result' = Call("initialize_record", caller, key, 0,
                          [sol_wallet |-> sol_wallet,
                           eth_address |-> eth_address], out.err)
        /\ applied' = IF out.err = "Ok"
                      THEN (key :> Zero(variant)) @@ applied
                      ELSE applied
        /\ UNCHANGED <<variant, state, runs, now, created>>

UpdateRecordCall(caller, key, a) ==
    LET out == ix_update_record(variant, Cur, caller, key, a, now)
    IN  /\ IsArgs(variant, a)
        /\ records' = out.records
        /\ result' = Call("update_record", caller, key, 0, a, out.err)
        /\ applied' = IF out.err = "Ok"
                      THEN [applied EXCEPT ![key] = Plus(@, Deltas(variant, a))]
                      ELSE applied
        /\ UNCHANGED <<variant, state, runs, now, created>>

InitializeAndUpdateCall(caller, sol_wallet, eth_address, a) ==
    LET key == RecordKey(sol_wallet, eth_address)
        out == ix_initialize_and_update(variant, Cur, caller, sol_wallet,
                                        eth_address, a, now)
    IN  /\ IsArgs(variant, a)
        /\ Room(key)
        /\ records' = out.records
        /\ result' = Call("initialize_and_update", caller, key, 0,
                          [sol_wallet |-> sol_wallet,
                           eth_address |-> eth_address, amounts |-> a],
                          out.err)
        /\ applied' = IF out.err = "Ok"
                      THEN (key :> Deltas(variant, a)) @@ applied
                      ELSE applied
        /\ UNCHANGED <<variant, state, runs, now, created>>

CloseRecordCall(caller, key) ==
    LET out == ix_close_record(Cur, caller, key)
    IN  /\ records' = out.records
        /\ result' = Call("close_record", caller, key, 0,
                          IF out.err = "Ok" THEN [closed |-> records[key]]
                                            ELSE NoArgs,
                          out.err)
        /\ applied' = IF out.err = "Ok" THEN Without(applied, key) ELSE applied
        /\ UNCHANGED <<variant, state, runs, now, created>>

NextIn(S) ==
    \/ Tick
    \/ \E c \in S.signers : InitializeStateCall(c)
    \/ \E c \in S.signers, d \in S.dry : CreateRunCall(c, d, S.maxRuns)
    \/ \E c \in S.signers, r \in S.runIds, t \in S.totals :
           UpdateRunTotalsCall(c, r, t)
    \/ \E c \in S.signers, t \in S.targets :
           InitializeRecordCall(c, t[1], t[2])
    \/ \E c \in S.signers, k \in KeysOf(S), a \in ArgsOf(S) :
           UpdateRecordCall(c, k, a)
    \/ \E c \in S.signers, t \in S.targets, a \in ArgsOf(S) :
           InitializeAndUpdateCall(c, t[1], t[2], a)
    \/ \E c \in S.signers, k \in KeysOf(S) : CloseRecordCall(c, k)

Next == NextIn(RunScope)

NextAmounts == NextIn(AmountScope)

NextKeys == NextIn(KeyScope)

NextPairs == NextIn(PairScope)

\* the run lifecycle, with one record
Spec == Init /\ [][Next]_vars

\* the record arithmetic
SpecAmounts == Init /\ [][NextAmounts]_vars

\* the record addressing
SpecKeys == Init /\ [][NextKeys]_vars

\* pairs of record instructions
SpecPairs == Init /\ [][NextPairs]_vars

----------------------------------------------------------------------------
(* Properties.  `result` is the call the last step made and its outcome;   *)
(* in a step formula `result'` is the call the step makes, the unprimed    *)
(* variables are the ledger the call found and the primed ones the ledger  *)
(* it left.                                                                *)

RecordOps ==
    {"initialize_record", "update_record", "initialize_and_update",
     "close_record"}

RunOps == {"create_run", "update_run_totals"}

\* the ledger is what a step found
LedgerUnchanged == state' = state /\ runs' = runs /\ records' = records

\* the step is a call of one of `ops` by a signer that is not the authority
ByOther(ops) ==
    /\ HasState(Cur)
    /\ result'.op \in ops
    /\ result'.caller # GlobalState(Cur).authority

\* C1: initialize_record, update_record, initialize_and_update and
\* close_record, called by a signer that is not GlobalState.authority, fail
\* with Unauthorized and leave every record, every run and GlobalState as
\* they were.
C1_RecordOpsUnauthorized ==
    [][ByOther(RecordOps) =>
            result'.err = "Unauthorized" /\ LedgerUnchanged]_vars

Overflows(v, r, a) ==
    \E i \in DOMAIN Zero(v) : Counters(v, r)[i] + Deltas(v, a)[i] > U64Max

\* C3: each counter of a record is the amount it was created with plus the
\* sum of the amounts of exactly the successful update_record calls that
\* named its token; `applied` is that sum, kept call by call.
C3_CountersAreSums ==
    /\ DOMAIN applied = DOMAIN records
    /\ \A k \in DOMAIN records : Counters(variant, records[k]) = applied[k]

\* C3 is reached: in variant B two amounts were added to xblk alone, and a
\* third call on xblk failed and added nothing.
C3_Witness ==
    /\ variant = "B"
    /\ result.op = "update_record"
    /\ result.err = "Overflow"
    /\ result.args.token_type = 1
    /\ result.key \in DOMAIN records
    /\ records[result.key].xblk_airdropped = Half + Half
    /\ records[result.key].xnm_airdropped = 0

\* C4: update_record is all-or-nothing on overflow: when the sum for any
\* one token passes U64Max the call fails with Overflow and every counter
\* and last_updated keep their values, the counters added before the
\* overflowing one included.
C4_OverflowAllOrNothing ==
    [][(/\ result'.op = "update_record"
        /\ result'.key \in DOMAIN records
        /\ Overflows(variant, records[result'.key], result'.args))
          => result'.err = "Overflow" /\ records' = records]_vars

\* C4 is reached: variant A, the first three additions fit and add a
\* positive amount, the fourth overflows.
C4_Witness ==
    /\ variant = "A"
    /\ result.op = "update_record"
    /\ result.err = "Overflow"
    /\ result.key \in DOMAIN records
    /\ \A i \in 1..3 :
          /\ Deltas("A", result.args)[i] > 0
          /\ Counters("A", records[result.key])[i]
               + Deltas("A", result.args)[i] <= U64Max
    /\ records[result.key].native_airdropped + result.args.native_amount
         > U64Max
    /\ records[result.key].last_updated < now

\* C5: the k-th successful create_run creates the run with run_id k: the
\* ids given out so far are 1..N in order, whatever else was called.
C5_RunIdsInOrder ==
    created = [i \in 1..Len(created) |-> i]

\* C5 is reached: two runs were created, with a record created and a run's
\* totals written in between or after.
C5_Witness ==
    /\ Len(created) = 2
    /\ DOMAIN records # {}
    /\ \E r \in DOMAIN runs : runs[r].total_recipients > 0

\* C6: initialize_record and initialize_and_update on a key that has a
\* record fail with the duplicate-key error and leave the record (counters,
\* stored address, last_updated) as it was.
C6_DuplicateKeyFails ==
    [][(/\ result'.op \in {"initialize_record", "initialize_and_update"}
        /\ result'.key \in DOMAIN records)
          => result'.err = "DuplicateKey" /\ records' = records]_vars

\* C6 is reached: initialize_record was refused on a record that holds
\* amounts, another address tail and an older last_updated.
C6_Witness ==
    /\ result.op = "initialize_record"
    /\ result.err = "DuplicateKey"
    /\ result.key \in DOMAIN records
    /\ records[result.key].eth_address # result.args.eth_address
    /\ Counters(variant, records[result.key]) # Zero(variant)
    /\ records[result.key].last_updated < now

\* the arguments update_record takes in the current variant
SomeArgs == { a \in ArgsOf(AmountScope) : IsArgs(variant, a) }

\* C7: after a successful close_record the record is gone: update_record
\* and close_record on its key fail, and initialize_record on the same key
\* succeeds and gives a record with every counter 0.
C7_CloseThenInitialize ==
    [][(result'.op = "close_record" /\ result'.err = "Ok") =>
        LET k == result'.key
            after == Ledger(state', runs', records')
        IN  /\ k \in DOMAIN records
            /\ k \notin DOMAIN records'
            /\ \A c \in Signers :
                 /\ ix_close_record(after, c, k).err = "NotFound"
                 /\ \A a \in SomeArgs :
                      ix_update_record(variant, after, c, k, a, now').err
                        = "NotFound"
                 /\ LET o == ix_initialize_record(variant, after, c,
                                 records[k].sol_wallet,
                                 records[k].eth_address, now')
                    IN  /\ o.err = "Ok"
                        /\ k \in DOMAIN o.records
                        /\ Counters(variant, o.records[k]) = Zero(variant)
       ]_vars

\* C7 is reached: a record that held amounts was closed.
C7_Witness ==
    /\ result.op = "close_record"
    /\ result.err = "Ok"
    /\ result.key \notin DOMAIN records
    /\ \A i \in DOMAIN Zero(variant) :
          Counters(variant, result.args.closed)[i] > 0

\* C8: initialize_state succeeds only while GlobalState does not exist; any
\* later call, by any signer, fails with AlreadyInitialized and leaves
\* authority and run_counter as they were.
C8_InitializeStateOnce ==
    [][result'.op = "initialize_state" =>
        IF HasState(Cur)
        THEN result'.err = "AlreadyInitialized" /\ state' = state
        ELSE /\ result'.err = "Ok"
             /\ state' = ("state" :> [authority |-> result'.caller,
                                      run_counter |-> 0])]_vars

\* C8 is reached: after runs were created another signer called
\* initialize_state and was refused.
C8_Witness ==
    /\ HasState(Cur)
    /\ result.op = "initialize_state"
    /\ result.err = "AlreadyInitialized"
    /\ result.caller # GlobalState(Cur).authority
    /\ GlobalState(Cur).run_counter > 0

\* the call of a step would fail for a reason of its own: an invalid
\* selector or an overflow on a record that exists, or a key in use
OtherFailure ==
    \/ /\ result'.op = "update_record"
       /\ result'.key \in DOMAIN records
       /\ \/ variant = "B" /\ result'.args.token_type \notin {0, 1}
          \/ Overflows(variant, records[result'.key], result'.args)
    \/ /\ result'.op = "initialize_record"
       /\ result'.key \in DOMAIN records

\* C9: a call by a signer that is not the authority, for which another
\* failure applies too (invalid selector, overflow, duplicate key), reports
\* Unauthorized, and nothing is changed.
C9_UnauthorizedFirst ==
    [][(ByOther(RecordOps) /\ OtherFailure)
          => result'.err = "Unauthorized" /\ LedgerUnchanged]_vars

\* C10: variant B, a token selector other than 0 or 1: update_record on a
\* record fails with InvalidTokenType and leaves it as it was;
\* initialize_and_update on a free key fails with InvalidTokenType, leaves
\* the key free, and initialize_record on that key then succeeds.
C10_InvalidTokenType ==
    [][/\ (/\ variant = "B"
           /\ result'.op = "update_record"
           /\ result'.key \in DOMAIN records
           /\ result'.args.token_type \notin {0, 1})
             => result'.err = "InvalidTokenType" /\ records' = records
       /\ (/\ variant = "B"
           /\ result'.op = "initialize_and_update"
           /\ result'.key \notin DOMAIN records
           /\ result'.args.amounts.token_type \notin {0, 1})
             => /\ result'.err = "InvalidTokenType"
                /\ records' = records
                /\ \A c \in Signers, t \in AmountScope.targets :
                     RecordKey(t[1], t[2]) = result'.key =>
                       ix_initialize_record(variant,
                           Ledger(state', runs', records'), c, t[1], t[2],
                           now').err = "Ok"
      ]_vars

\* C10 is reached: update_record with selector 2 was refused on a record
\* that holds amounts and an older last_updated.
C10_Witness ==
    /\ variant = "B"
    /\ result.op = "update_record"
    /\ result.err = "InvalidTokenType"
    /\ result.args.token_type = 2
    /\ result.args.amount > 0
    /\ result.key \in DOMAIN records
    /\ records[result.key].xnm_airdropped > 0
    /\ records[result.key].last_updated < now

\* C11: initialize_and_update on a key without a record gives what
\* initialize_record followed by update_record with the same amounts gives:
\* it ends as that update_record ends, never with Overflow, and when it
\* succeeds the counters of its record are those of the record the two
\* calls leave (variant A the four amounts, variant B the amount in the
\* selected counter and 0 in the other).
C11_InitAndUpdateIsInitThenUpdate ==
    [][(/\ result'.op = "initialize_and_update"
        /\ result'.key \notin DOMAIN records) =>
        LET k == result'.key
            g == result'.args
            i == ix_initialize_record(variant, Cur, result'.caller,
                                      g.sol_wallet, g.eth_address, now)
            u == ix_update_record(variant, Ledger(i.state, i.runs, i.records),
                                  result'.caller, k, g.amounts, now)
        IN  /\ i.err = "Ok"
            /\ result'.err = u.err
            /\ result'.err # "Overflow"
            /\ result'.err = "Ok" =>
                  /\ k \in DOMAIN records'
                  /\ Counters(variant, records'[k])
                       = Counters(variant, u.records[k])
                  /\ Counters(variant, records'[k])
                       = Deltas(variant, g.amounts)
       ]_vars

\* C11 is reached: variant B, initialize_and_update created a record with
\* the largest amount in xblk alone.
C11_Witness ==
    /\ variant = "B"
    /\ result.op = "initialize_and_update"
    /\ result.err = "Ok"
    /\ result.args.amounts.token_type = 1
    /\ result.args.amounts.amount = U64Max
    /\ result.key \in DOMAIN records
    /\ records[result.key].xblk_airdropped = U64Max
    /\ records[result.key].xnm_airdropped = 0

\* the record r was created for the wallet and the first 20 address bytes
\* that the arguments g of an initializing call name
SameWalletAndHead(r, g) ==
    /\ r.sol_wallet = g.sol_wallet
    /\ r.eth_address.head = g.eth_address.head

\* C12: the record address depends on the wallet and the first 20 bytes of
\* the address only.  An initializing call for a wallet and 20 leading bytes
\* that a record was created for fails as a duplicate, whatever the other
\* 22 bytes are, and the stored address stays the first one; a call that
\* differs from every record in the wallet or in the leading 20 bytes is
\* no duplicate, and the record it creates stands beside the others.
C12_KeyIsWalletAndHead ==
    [][result'.op \in {"initialize_record", "initialize_and_update"} =>
        LET g == result'.args
        IN  IF \E k \in DOMAIN records : SameWalletAndHead(records[k], g)
            THEN /\ result'.err = "DuplicateKey"
                 /\ records' = records
            ELSE /\ result'.err # "DuplicateKey"
                 /\ result'.op = "initialize_record" => result'.err = "Ok"
                 /\ result'.err = "Ok" =>
                      /\ \A k \in DOMAIN records :
                            k \in DOMAIN records' /\ records'[k] = records[k]
                      /\ \E k \in DOMAIN records' \ DOMAIN records :
                            /\ records'[k].sol_wallet = g.sol_wallet
                            /\ records'[k].eth_address = g.eth_address
                            /\ DOMAIN records' = DOMAIN records \cup {k}
       ]_vars

\* C12 is reached: two records of one wallet with different leading bytes
\* exist, and an address that shares its leading bytes with the first and
\* differs in the rest was refused as a duplicate.
C12_Witness ==
    /\ result.op = "initialize_record"
    /\ result.err = "DuplicateKey"
    /\ \E k1, k2 \in DOMAIN records :
          /\ SameWalletAndHead(records[k1], result.args)
          /\ records[k1].eth_address.tail # result.args.eth_address.tail
          /\ records[k2].sol_wallet = result.args.sol_wallet
          /\ records[k2].eth_address.head # result.args.eth_address.head

\* every counter of every record is a u64
CountersInRange ==
    \A k \in DOMAIN records :
        \A i \in DOMAIN Zero(variant) :
            /\ Counters(variant, records[k])[i] >= 0
            /\ Counters(variant, records[k])[i] <= U64Max

\* C13: the counters of a record never go down and never pass U64Max: in
\* every state each counter is within 0..U64Max, and no step lowers a
\* counter of a record that exists before and after it; a successful
\* update_record raises each counter by exactly the amount asked for, so
\* no sum has wrapped.
C13_CountersMonotone ==
    /\ CountersInRange
    /\ [][/\ CountersInRange'
          /\ \A k \in DOMAIN records \cap DOMAIN records' :
                \A i \in DOMAIN Zero(variant) :
                    Counters(variant, records'[k])[i]
                      >= Counters(variant, records[k])[i]
          /\ (result'.op = "update_record" /\ result'.err = "Ok") =>
                Counters(variant, records'[result'.key])
                  = Plus(Counters(variant, records[result'.key]),
                         Deltas(variant, result'.args))
         ]_vars

\* C13 is reached: variant B, a successful update_record with amount 0 on
\* a record whose counter stands at U64Max, later than its last update.
C13_Witness ==
    /\ variant = "B"
    /\ result.op = "update_record"
    /\ result.err = "Ok"
    /\ result.args.token_type = 0
    /\ result.args.amount = 0
    /\ result.key \in DOMAIN records
    /\ records[result.key].xnm_airdropped = U64Max
    /\ records[result.key].last_updated = now
    /\ now > 0

\* C14: update_run_totals by the authority on a run that exists succeeds
\* whatever totals the run holds and leaves the supplied values in it (so
\* the totals are always those of the last successful call), and the same
\* call made again succeeds and leaves the ledger as the first left it.
C14_TotalsLastWriteWins ==
    [][(/\ result'.op = "update_run_totals"
        /\ HasState(Cur)
        /\ result'.caller = GlobalState(Cur).authority
        /\ result'.run \in DOMAIN runs) =>
        LET r == result'.run
            g == result'.args
            after == Ledger(state', runs', records')
            again == ix_update_run_totals(after, result'.caller, r,
                         g.total_recipients, g.total_amount)
        IN  /\ result'.err = "Ok"
            /\ r \in DOMAIN runs'
            /\ runs'[r].total_recipients = g.total_recipients
            /\ runs'[r].total_amount = g.total_amount
            /\ again.err = "Ok"
            /\ Ledger(again.state, again.runs, again.records) = after
       ]_vars

\* C14 is reached: the authority wrote totals of zero over the totals of
\* the second run while the first run holds other totals.
C14_Witness ==
    /\ HasState(Cur)
    /\ result.op = "update_run_totals"
    /\ result.err = "Ok"
    /\ result.caller = GlobalState(Cur).authority
    /\ result.run = 2
    /\ DOMAIN runs = {1, 2}
    /\ runs[2].total_recipients = 0 /\ runs[2].total_amount = 0
    /\ runs[1].total_recipients = 2 /\ runs[1].total_amount = U64Max
    /\ runs[2].run_date < now

\* C15: update_record and close_record on a key that has no record (never
\* created, or closed), and update_run_totals on a run id that no run has,
\* fail with NotFound, whoever calls, and leave the ledger as it was.
C15_NotFound ==
    [][(\/ /\ result'.op \in {"update_record", "close_record"}
           /\ result'.key \notin DOMAIN records
        \/ /\ result'.op = "update_run_totals"
           /\ result'.run \notin DOMAIN runs)
          => result'.err = "NotFound" /\ LedgerUnchanged]_vars

\* C15 is reached: with one run created, a signer that is not the
\* authority named run 2 in update_run_totals, and no record exists.
C15_Witness ==
    /\ HasState(Cur)
    /\ result.op = "update_run_totals"
    /\ result.err = "NotFound"
    /\ result.caller # GlobalState(Cur).authority
    /\ GlobalState(Cur).run_counter = 1
    /\ result.run = 2
    /\ DOMAIN runs = {1}
    /\ DOMAIN records = {}

\* the record instructions a scope can issue in variant v, as call
\* descriptions
RecordCalls(S, v) ==
    LET args == { a \in ArgsOf(S) : IsArgs(v, a) }
    IN  { [op |-> "initialize_record", caller |-> c, sol_wallet |-> t[1],
           eth_address |-> t[2], key |-> RecordKey(t[1], t[2]),
           amounts |-> NoArgs] : c \in S.signers, t \in S.targets }
        \cup
        { [op |-> "initialize_and_update", caller |-> x[1],
           sol_wallet |-> x[2][1], eth_address |-> x[2][2],
           key |-> RecordKey(x[2][1], x[2][2]), amounts |-> x[3]] :
             x \in S.signers \X S.targets \X args }
        \cup
        { [op |-> "update_record", caller |-> x[1], sol_wallet |-> x[2][1],
           eth_address |-> x[2][2], key |-> RecordKey(x[2][1], x[2][2]),
           amounts |-> x[3]] : x \in S.signers \X S.targets \X args }
        \cup
        { [op |-> "close_record", caller |-> c, sol_wallet |-> t[1],
           eth_address |-> t[2], key |-> RecordKey(t[1], t[2]),
           amounts |-> NoArgs] : c \in S.signers, t \in S.targets }

\* the outcome of the record instruction c on the ledger L
Apply(v, L, c, clock) ==
    CASE c.op = "initialize_record" ->
           ix_initialize_record(v, L, c.caller, c.sol_wallet, c.eth_address,
                                clock)
      [] c.op = "initialize_and_update" ->
           ix_initialize_and_update(v, L, c.caller, c.sol_wallet,
                                    c.eth_address, c.amounts, clock)
      [] c.op = "update_record" ->
           ix_update_record(v, L, c.caller, c.key, c.amounts, clock)
      [] c.op = "close_record" ->
           ix_close_record(L, c.caller, c.key)

\* the counters of the record at key k of an outcome, <<>> when it has none
CountersAt(v, o, k) ==
    IF k \in DOMAIN o.records THEN Counters(v, o.records[k]) ELSE <<>>

\* from the current ledger, two record instructions on different keys give
\* the same outcomes and the same counters in either order
Commute ==
    \A c1, c2 \in RecordCalls(PairScope, variant) :
        c1.key # c2.key =>
            LET a1 == Apply(variant, Cur, c1, now)
                a2 == Apply(variant, Ledger(a1.state, a1.runs, a1.records),
                            c2, now)
                b2 == Apply(variant, Cur, c2, now)
                b1 == Apply(variant, Ledger(b2.state, b2.runs, b2.records),
                            c1, now)
            IN  /\ a1.err = b1.err
                /\ a2.err = b2.err
                /\ \A k \in {c1.key, c2.key} :
                      CountersAt(variant, a2, k) = CountersAt(variant, b1, k)

\* C16: operations on different records are independent.  A record
\* instruction on one key leaves GlobalState, every run and every record
\* at another key as they were, and from every reachable ledger two record
\* instructions on different keys give the same outcomes and the same
\* counters of both records in either order.
C16_RecordsIndependent ==
    /\ []Commute
    /\ [][result'.op \in RecordOps =>
            /\ state' = state
            /\ runs' = runs
            /\ DOMAIN records' \ {result'.key} = DOMAIN records \ {result'.key}
            /\ \A k \in DOMAIN records \ {result'.key} :
                  records'[k] = records[k]
         ]_vars

\* C16 is reached: a record was updated while a record at another key,
\* created earlier with other stored bytes, exists.
C16_Witness ==
    /\ result.op = "update_record"
    /\ result.err = "Ok"
    /\ result.key \in DOMAIN records
    /\ \E k \in DOMAIN records \ {result.key} :
          /\ records[k].last_updated < records[result.key].last_updated
          /\ Counters(variant, records[k])
               # Counters(variant, records[result.key])

\* run_counter of the current ledger; -1 while GlobalState does not exist
RunCounter(L) == IF HasState(L) THEN GlobalState(L).run_counter ELSE -1

\* C17: run_counter starts at 0 and changes only through a successful
\* create_run, which raises it by exactly 1: GlobalState is created with
\* run_counter 0, and once it exists every other instruction and every
\* failed instruction leaves run_counter as it was.
C17_RunCounterFrame ==
    [][LET after == Ledger(state', runs', records')
       IN  IF ~HasState(Cur)
           THEN HasState(after) =>
                   /\ result'.op = "initialize_state"
                   /\ RunCounter(after) = 0
           ELSE /\ HasState(after)
                /\ RunCounter(after) =
                     IF result'.op = "create_run" /\ result'.err = "Ok"
                     THEN RunCounter(Cur) + 1
                     ELSE RunCounter(Cur)
      ]_vars

\* C17 is reached: with run_counter at 1, a create_run by a signer that is
\* not the authority failed, after a record was created and totals written.
C17_Witness ==
    /\ HasState(Cur)
    /\ result.op = "create_run"
    /\ result.err = "Unauthorized"
    /\ RunCounter(Cur) = 1
    /\ DOMAIN runs = {1}
    /\ runs[1].total_recipients = 2
    /\ DOMAIN records # {}

\* the runs of ledger L are at the keys 1..run_counter, each with its key
\* as run_id
RunKeysInLockstep(L) ==
    /\ DOMAIN L.runs = 1..RunCounter(L)
    /\ \A k \in DOMAIN L.runs : L.runs[k].run_id = k

\* C18: in every state the keys of the runs are exactly 1..run_counter and
\* the run at key k has run_id k; no step removes a run; a successful
\* create_run creates, in the step that advances the counter, the one run
\* at key run_counter + 1, with total_recipients 0 and total_amount 0.
C18_RunKeysFollowCounter ==
    /\ RunKeysInLockstep(Cur)
    /\ [][LET after == Ledger(state', runs', records')
          IN  /\ RunKeysInLockstep(after)
              /\ DOMAIN runs \subseteq DOMAIN runs'
              /\ (result'.op = "create_run" /\ result'.err = "Ok") =>
                    LET k == RunCounter(Cur) + 1
                    IN  /\ RunCounter(after) = k
                        /\ DOMAIN runs' = DOMAIN runs \cup {k}
                        /\ k \notin DOMAIN runs
                        /\ runs'[k].run_id = k
                        /\ runs'[k].total_recipients = 0
                        /\ runs'[k].total_amount = 0
                        /\ runs'[k].dry_run = result'.args.dry_run
                        /\ runs'[k].run_date = now
                        /\ \A j \in DOMAIN runs : runs'[j] = runs[j]
         ]_vars

\* C18 is reached: the second run was created while the first holds
\* totals written earlier.
C18_Witness ==
    /\ result.op = "create_run"
    /\ result.err = "Ok"
    /\ RunCounter(Cur) = 2
    /\ DOMAIN runs = {1, 2}
    /\ runs[1].total_recipients = 2
    /\ runs[2].total_recipients = 0
    /\ runs[1].run_date < runs[2].run_date

\* C19: run_id, run_date and dry_run of a run are fixed when it is
\* created.  update_run_totals changes nothing but total_recipients and
\* total_amount of the run it names: that run's other fields, every other
\* run, GlobalState and the records stay as they were; and no other
\* instruction changes a run that exists.
C19_RunFieldsFixed ==
    [][/\ \A k \in DOMAIN runs :
             /\ k \in DOMAIN runs'
             /\ runs'[k].run_id = runs[k].run_id
             /\ runs'[k].run_date = runs[k].run_date
             /\ runs'[k].dry_run = runs[k].dry_run
             /\ (result'.op # "update_run_totals" \/ result'.run # k)
                   => runs'[k] = runs[k]
       /\ result'.op = "update_run_totals" =>
             /\ state' = state
             /\ records' = records
             /\ DOMAIN runs' = DOMAIN runs
      ]_vars

\* C19 is reached: the totals of a dry run created at an earlier time were
\* written while another run exists.
C19_Witness ==
    /\ result.op = "update_run_totals"
    /\ result.err = "Ok"
    /\ result.run \in DOMAIN runs
    /\ runs[result.run].dry_run
    /\ runs[result.run].run_date < now
    /\ runs[result.run].total_recipients = 2
    /\ \E k \in DOMAIN runs \ {result.run} :
          ~runs[k].dry_run /\ runs[k].total_recipients = 0

\* every record of ledger L holds the wallet and the leading address bytes
\* that its key is made of
StoredIdentityMatchesKey(L) ==
    \A k \in DOMAIN L.records :
        k = <<L.records[k].sol_wallet, L.records[k].eth_address.head>>

\* C20: in every state the record at the key of (W, P) holds wallet W and
\* an address whose first 20 bytes are P, and no step changes the wallet
\* or any of the 42 address bytes of a record that exists before and after
\* it; only a close followed by a new initialization stores other bytes.
C20_StoredIdentityPermanent ==
    /\ StoredIdentityMatchesKey(Cur)
    /\ [][/\ StoredIdentityMatchesKey(Ledger(state', runs', records'))
          /\ \A k \in DOMAIN records \cap DOMAIN records' :
                /\ records'[k].sol_wallet = records[k].sol_wallet
                /\ records'[k].eth_address = records[k].eth_address
          /\ result'.op # "close_record" =>
                DOMAIN records \subseteq DOMAIN records'
         ]_vars

\* C20 is reached: a record created with the second address of its key
\* was updated at a later time, while another record exists.
C20_Witness ==
    /\ result.op = "update_record"
    /\ result.err = "Ok"
    /\ result.key \in DOMAIN records
    /\ records[result.key].eth_address = Eth("H1", "T2")
    /\ records[result.key].last_updated = now
    /\ now > 0
    /\ Cardinality(DOMAIN records) = 2

\* C21: GlobalState.authority is the signer of the one successful
\* initialize_state and never changes: GlobalState comes into existence
\* only by a successful initialize_state, with its signer as authority,
\* and once it exists every step, by whatever signer and with whatever
\* outcome, leaves it in existence with the same authority.
C21_AuthorityFixed ==
    [][LET after == Ledger(state', runs', records')
       IN  IF ~HasState(Cur)
           THEN HasState(after) =>
                   /\ result'.op = "initialize_state"
                   /\ result'.err = "Ok"
                   /\ GlobalState(after).authority = result'.caller
           ELSE /\ HasState(after)
                /\ GlobalState(after).authority = GlobalState(Cur).authority
                /\ result'.op = "initialize_state" => result'.err # "Ok"
      ]_vars

\* C21 is reached: B is the authority, two runs were created, and a
\* record instruction signed by A has just succeeded.
C21_Witness ==
    /\ HasState(Cur)
    /\ GlobalState(Cur).authority = "B"
    /\ GlobalState(Cur).run_counter = 2
    /\ result.op = "initialize_and_update"
    /\ result.caller = "A"
    /\ result.err = "Ok"
    /\ \E r \in DOMAIN runs : runs[r].total_recipients = 2

====
